---- MODULE Spec2Model ----
(***************************************************************************)
(* A model of LLMEasyTools: call dispatch (llm_easy_tools/processor.py)    *)
(* and schema derivation, the prefix merge and the strict transform        *)
(* (llm_easy_tools/schema_generator.py).                                   *)
(*                                                                         *)
(* Text (a Python str) is a sequence of one-character strings, so that     *)
(* startswith, slicing, lower, replace, split and strip are computed the   *)
(* way Python computes them.  A Python value is a record tagged by t.      *)
(***************************************************************************)
EXTENDS Integers, Sequences, FiniteSets, TLC

VARIABLES
    pc,                  \* position of the entry point that is running
    tool_call,           \* the incoming call: [id, name, arguments]
    functions_or_models, \* the registered callables, in registration order
    prefix_class,        \* the prefix type, or None
    fix_json_args,       \* option
    case_insensitive,    \* option
    intended,            \* the (key, value) items the raw arguments were written from
    ret,                 \* what process_tool_call gave: [raised, result, invoked, recorded]
    message,             \* to_message() of the returned ToolResult, or None
    tool_calls,          \* process_message / process_one_tool_call: the message's calls
    function_call,       \* process_one_tool_call: the message's function_call, or None
    index,               \* process_one_tool_call: the requested position
    executor,            \* process_message: TRUE when a ThreadPoolExecutor is passed
    queue,               \* the executor's work queue: positions not yet taken
    worker,              \* per worker thread: [at, task, run, loaded]
    futures,             \* per position: the outcome of that call, or Pending
    results,             \* the list process_message has collected so far
    counter,             \* CounterClass.counter, shared by the invocations
    calls_made,          \* how many times increment_counter was entered
    schema,              \* the schema tree: the transform's, or the target of the merge
    strict_done,         \* to_strict_json_schema has returned
    strict,              \* get_function_schema: the strict argument
    derived,             \* what get_function_schema gave: [raised, ret]
    prefix_schema_name,  \* insert_prefix: the prefix_schema_name argument
    new_schema,          \* what the last insert_prefix gave: [raised, ret, schema]
    merges               \* how many times insert_prefix was called on schema

vars == <<pc, tool_call, functions_or_models, prefix_class, fix_json_args,
          case_insensitive, intended, ret, message, tool_calls, function_call,
          index, executor, queue, worker, futures, results, counter, calls_made,
          schema, strict_done, strict, derived, prefix_schema_name, new_schema, merges>>

\* what the caller passes, the state of a batch, the state of the transform
optionVars == <<functions_or_models, prefix_class, fix_json_args, case_insensitive>>
batchVars == <<tool_calls, function_call, index, executor, queue, worker, futures,
               results, counter, calls_made>>
schemaVars == <<schema, strict_done, strict, derived, prefix_schema_name, new_schema, merges>>

-----------------------------------------------------------------------------
(* Python values *)

None == [t |-> "None"]
Num(n) == [t |-> "num", v |-> n]
Bool(b) == [t |-> "bool", v |-> b]
Str(s) == [t |-> "str", v |-> s]
List(l) == [t |-> "list", v |-> l]
Dict(d) == [t |-> "dict", v |-> d]
Exc(kind, msg) == [t |-> "exc", kind |-> kind, msg |-> msg]

Min(S) == CHOOSE x \in S : \A y \in S : x <= y

-----------------------------------------------------------------------------
(* Python str methods *)

QUOTE == "\""
BACKSLASH == "\\"
Whitespace == {" "}

Upper == <<"A", "B", "C", "D", "E", "F", "G", "H", "I", "J", "K", "L", "M",
           "N", "O", "P", "Q", "R", "S", "T", "U", "V", "W", "X", "Y", "Z">>
Lower == <<"a", "b", "c", "d", "e", "f", "g", "h", "i", "j", "k", "l", "m",
           "n", "o", "p", "q", "r", "s", "t", "u", "v", "w", "x", "y", "z">>

LowerChar(c) ==
    IF \E i \in DOMAIN Upper : Upper[i] = c
    THEN Lower[CHOOSE i \in DOMAIN Upper : Upper[i] = c]
    ELSE c

lower(s) == [i \in 1..Len(s) |-> LowerChar(s[i])]

startswith(s, p) == Len(p) <= Len(s) /\ SubSeq(s, 1, Len(p)) = p

\* s[n:]
SliceFrom(s, n) == IF n >= Len(s) THEN <<>> ELSE SubSeq(s, n + 1, Len(s))

RECURSIVE str_replace(_, _, _)
str_replace(s, old, new) ==
    IF Len(s) < Len(old) THEN s
    ELSE IF SubSeq(s, 1, Len(old)) = old
         THEN new \o str_replace(SliceFrom(s, Len(old)), old, new)
         ELSE <<s[1]>> \o str_replace(Tail(s), old, new)

RECURSIVE str_split(_, _)
str_split(s, sep) ==
    LET at == {i \in 1..Len(s) : s[i] = sep} IN
    IF at = {} THEN <<s>>
    ELSE <<SubSeq(s, 1, Min(at) - 1)>> \o str_split(SliceFrom(s, Min(at)), sep)

RECURSIVE str_lstrip(_)
str_lstrip(s) == IF s # <<>> /\ s[1] \in Whitespace THEN str_lstrip(Tail(s)) ELSE s

RECURSIVE str_rstrip(_)
str_rstrip(s) ==
    IF s # <<>> /\ s[Len(s)] \in Whitespace THEN str_rstrip(SubSeq(s, 1, Len(s) - 1)) ELSE s

str_strip(s) == str_rstrip(str_lstrip(s))

-----------------------------------------------------------------------------
(* json.loads: objects, arrays, strings with \" and \\ escapes, and       *)
(* unsigned integers; anything else in the text is a JSONDecodeError.      *)

DigitVal == [c \in {"0", "1", "2", "3", "4", "5", "6", "7", "8", "9"} |->
               CASE c = "0" -> 0 [] c = "1" -> 1 [] c = "2" -> 2 [] c = "3" -> 3
                 [] c = "4" -> 4 [] c = "5" -> 5 [] c = "6" -> 6 [] c = "7" -> 7
                 [] c = "8" -> 8 [] c = "9" -> 9]

ParseFail == [ok |-> FALSE, val |-> None, next |-> 0]
ParseOk(v, n) == [ok |-> TRUE, val |-> v, next |-> n]

RECURSIVE SkipWs(_, _)
SkipWs(s, i) == IF i <= Len(s) /\ s[i] \in Whitespace THEN SkipWs(s, i + 1) ELSE i

\* the body of a string, from the position after its opening quote
RECURSIVE ScanString(_, _, _)
ScanString(s, j, acc) ==
    IF j > Len(s) THEN ParseFail
    ELSE IF s[j] = QUOTE THEN ParseOk(Str(acc), j + 1)
    ELSE IF s[j] = BACKSLASH
         THEN IF j + 1 <= Len(s) /\ s[j + 1] \in {QUOTE, BACKSLASH}
              THEN ScanString(s, j + 2, Append(acc, s[j + 1]))
              ELSE ParseFail
         ELSE ScanString(s, j + 1, Append(acc, s[j]))

RECURSIVE ScanDigits(_, _, _)
ScanDigits(s, j, acc) ==
    IF j <= Len(s) /\ s[j] \in DOMAIN DigitVal
    THEN ScanDigits(s, j + 1, 10 * acc + DigitVal[s[j]])
    ELSE ParseOk(Num(acc), j)

\* a leading 0 is a number of its own: "01" is 0 followed by extra data
ParseNumber(s, i) == IF s[i] = "0" THEN ParseOk(Num(0), i + 1) ELSE ScanDigits(s, i, 0)

RECURSIVE ParseValue(_, _)
RECURSIVE ParseMembers(_, _, _)
RECURSIVE ParseElements(_, _, _)

\* i is where a property name must start; a later duplicate key wins
ParseMembers(s, i, acc) ==
    IF i > Len(s) \/ s[i] # QUOTE THEN ParseFail
    ELSE LET k == ScanString(s, i + 1, <<>>) IN
         IF ~k.ok THEN ParseFail
         ELSE LET c == SkipWs(s, k.next) IN
              IF c > Len(s) \/ s[c] # ":" THEN ParseFail
              ELSE LET v == ParseValue(s, SkipWs(s, c + 1)) IN
                   IF ~v.ok THEN ParseFail
                   ELSE LET e == SkipWs(s, v.next)
                            acc2 == [x \in DOMAIN acc \cup {k.val.v} |->
                                       IF x = k.val.v THEN v.val ELSE acc[x]]
                        IN IF e > Len(s) THEN ParseFail
                           ELSE IF s[e] = "}" THEN ParseOk(Dict(acc2), e + 1)
                           ELSE IF s[e] = "," THEN ParseMembers(s, SkipWs(s, e + 1), acc2)
                           ELSE ParseFail

ParseElements(s, i, acc) ==
    LET v == ParseValue(s, i) IN
    IF ~v.ok THEN ParseFail
    ELSE LET e == SkipWs(s, v.next) IN
         IF e > Len(s) THEN ParseFail
         ELSE IF s[e] = "]" THEN ParseOk(List(Append(acc, v.val)), e + 1)
         ELSE IF s[e] = "," THEN ParseElements(s, SkipWs(s, e + 1), Append(acc, v.val))
         ELSE ParseFail

ParseValue(s, i) ==
    IF i > Len(s) THEN ParseFail
    ELSE IF s[i] = "{"
         THEN LET j == SkipWs(s, i + 1) IN
              IF j <= Len(s) /\ s[j] = "}" THEN ParseOk(Dict(<<>>), j + 1)
              ELSE ParseMembers(s, j, <<>>)
    ELSE IF s[i] = "["
         THEN LET j == SkipWs(s, i + 1) IN
              IF j <= Len(s) /\ s[j] = "]" THEN ParseOk(List(<<>>), j + 1)
              ELSE ParseElements(s, j, <<>>)
    ELSE IF s[i] = QUOTE THEN ScanString(s, i + 1, <<>>)
    ELSE IF s[i] \in DOMAIN DigitVal THEN ParseNumber(s, i)
    ELSE ParseFail

\* [ok, val]: ok = FALSE stands for json.JSONDecodeError
json_loads(s) ==
    LET r == ParseValue(s, SkipWs(s, 1)) IN
    IF r.ok /\ SkipWs(s, r.next) = Len(s) + 1
    THEN [ok |-> TRUE, val |-> r.val]
    ELSE [ok |-> FALSE, val |-> None]

-----------------------------------------------------------------------------
(* json.dumps, as the tests' mk_tool_call writes the raw arguments: items  *)
(* is the ordered sequence of [k, v] pairs of the dict being written.      *)

DigitChar == <<"0", "1", "2", "3", "4", "5", "6", "7", "8", "9">>

RECURSIVE IntToText(_)
IntToText(n) ==
    IF n < 10 THEN <<DigitChar[n + 1]>>
    ELSE IntToText(n \div 10) \o <<DigitChar[(n % 10) + 1]>>

RECURSIVE Escape(_)
Escape(s) ==
    IF s = <<>> THEN <<>>
    ELSE (IF s[1] \in {QUOTE, BACKSLASH} THEN <<BACKSLASH, s[1]>> ELSE <<s[1]>>)
         \o Escape(Tail(s))

RECURSIVE json_dumps(_)
RECURSIVE DumpElements(_)
RECURSIVE DumpItems(_)

DumpElements(l) ==
    IF l = <<>> THEN <<>>
    ELSE json_dumps(l[1]) \o (IF Len(l) > 1 THEN <<",", " ">> ELSE <<>>)
         \o DumpElements(Tail(l))

DumpItems(items) ==
    IF items = <<>> THEN <<>>
    ELSE <<QUOTE>> \o Escape(items[1].k) \o <<QUOTE, ":", " ">> \o json_dumps(items[1].v)
         \o (IF Len(items) > 1 THEN <<",", " ">> ELSE <<>>) \o DumpItems(Tail(items))

\* a dict to write is [t |-> "items", v |-> <<[k, v], ...>>]
json_dumps(x) ==
    CASE x.t = "num" -> IntToText(x.v)
      [] x.t = "str" -> <<QUOTE>> \o Escape(x.v) \o <<QUOTE>>
      [] x.t = "list" -> <<"[">> \o DumpElements(x.v) \o <<"]">>
      [] x.t = "items" -> <<"{">> \o DumpItems(x.v) \o <<"}">>

Items(items) == [t |-> "items", v |-> items]

\* the dict a sequence of items denotes (a later duplicate key wins)
DictOf(items) ==
    [key \in {items[i].k : i \in DOMAIN items} |->
        items[CHOOSE i \in DOMAIN items :
                 /\ items[i].k = key
                 /\ \A j \in DOMAIN items : items[j].k = key => j <= i].v]

-----------------------------------------------------------------------------
(* typing annotations and the validation engine (pydantic)                 *)

TInt == [origin |-> "", base |-> "int", args |-> <<>>]
TStr == [origin |-> "", base |-> "str", args |-> <<>>]
TNoneType == [origin |-> "", base |-> "NoneType", args |-> <<>>]
TList(a) == [origin |-> "list", base |-> "", args |-> <<a>>]
TUnion(as) == [origin |-> "Union", base |-> "", args |-> as]
TOptional(a) == TUnion(<<a, TNoneType>>)

\* one parameter of a callable; default = Undefined: the parameter is required
Undefined == [t |-> "PydanticUndefined"]
Field(name, annotation, default) == [name |-> name, annotation |-> annotation, default |-> default]

IsDigits(s) == s # <<>> /\ \A i \in DOMAIN s : s[i] \in DOMAIN DigitVal

\* [ok, val]: the value as the engine accepts it for the annotation
RECURSIVE validate(_, _)
validate(value, annotation) ==
    IF annotation.origin = "list"
    THEN IF value.t = "list"
            /\ \A i \in DOMAIN value.v : validate(value.v[i], annotation.args[1]).ok
         THEN [ok |-> TRUE,
               val |-> List([i \in DOMAIN value.v |-> validate(value.v[i], annotation.args[1]).val])]
         ELSE [ok |-> FALSE, val |-> None]
    ELSE IF annotation.origin = "Union"
    THEN LET fits == {i \in DOMAIN annotation.args : validate(value, annotation.args[i]).ok} IN
         IF fits = {} THEN [ok |-> FALSE, val |-> None]
         ELSE validate(value, annotation.args[Min(fits)])
    ELSE IF annotation.base = "int"
    THEN IF value.t = "num" THEN [ok |-> TRUE, val |-> value]
         ELSE IF value.t = "str" /\ IsDigits(value.v)
              THEN [ok |-> TRUE, val |-> ScanDigits(value.v, 1, 0).val]
              ELSE [ok |-> FALSE, val |-> None]
    ELSE IF annotation.base = "str"
    THEN [ok |-> value.t = "str", val |-> IF value.t = "str" THEN value ELSE None]
    ELSE [ok |-> value.t = "None", val |-> None]

\* model(**kwargs) of a model with these fields: [ok, val]; keys that are no
\* field are ignored, a missing field takes its default or fails
model_validate(fields, kwargs) ==
    LET one(f) == IF f.name \in DOMAIN kwargs THEN validate(kwargs[f.name], f.annotation)
                  ELSE IF f.default = Undefined THEN [ok |-> FALSE, val |-> None]
                  ELSE [ok |-> TRUE, val |-> f.default]
    IN IF \A i \in DOMAIN fields : one(fields[i]).ok
       THEN [ok |-> TRUE,
             val |-> [n \in {fields[i].name : i \in DOMAIN fields} |->
                        one(fields[CHOOSE i \in DOMAIN fields : fields[i].name = n]).val]]
       ELSE [ok |-> FALSE, val |-> None]

ModelInstance(cls, values) == [t |-> "model", cls |-> cls, v |-> values]

-----------------------------------------------------------------------------
(* Registered callables.  A callable is [name, wrapped, schema_name, kind, *)
(* fields]: name is func.__name__, wrapped says it is an LLMFunction whose *)
(* schema carries schema_name, kind selects the body, fields are the       *)
(* parameters.  Dict keys and string contents are opaque tokens; names are *)
(* spelled character by character because dispatch slices and folds them. *)

Callable(name, kind, fields) ==
    [name |-> name, wrapped |-> FALSE, schema_name |-> <<>>, kind |-> kind, fields |-> fields]

LLMFunction(func, name) == [func EXCEPT !.wrapped = TRUE, !.schema_name = name]

k_arg == <<"arg">>
k_names == <<"names">>
k_relevancy == <<"relevancy">>
k_next_actions_plan == <<"next_actions_plan">>

n_failing_method == <<"f", "a", "i", "l", "i", "n", "g", "_", "m", "e", "t", "h", "o", "d">>
n_User == <<"U", "s", "e", "r">>
n_user == <<"u", "s", "e", "r">>
n_original_function == <<"o", "r", "i", "g", "i", "n", "a", "l", "_", "f", "u", "n", "c", "t", "i", "o", "n">>
n_altered_name == <<"a", "l", "t", "e", "r", "e", "d", "_", "n", "a", "m", "e">>
n_InvalidFunction == <<"I", "n", "v", "a", "l", "i", "d", "F", "u", "n", "c", "t", "i", "o", "n">>
n_Reflection == <<"R", "e", "f", "l", "e", "c", "t", "i", "o", "n">>
n_increment_counter == <<"i", "n", "c", "r", "e", "m", "e", "n", "t", "_", "c", "o", "u", "n", "t", "e", "r">>
s_and == <<"_", "a", "n", "d", "_">>

failing_method == Callable(n_failing_method, "failing_method", <<Field(k_arg, TInt, Undefined)>>)
\* class User(BaseModel): names: Optional[List[str]]
User == Callable(n_User, "model", <<Field(k_names, TOptional(TList(TStr)), Undefined)>>)
\* def user(names: Union[List[str], str]) -> None: a function whose name is
\* User's, case-folded, and whose list-compatible field also admits a string
user == Callable(n_user, "no_output", <<Field(k_names, TUnion(<<TList(TStr), TStr>>), Undefined)>>)
original_function == Callable(n_original_function, "original_function", <<>>)
function_decorated == LLMFunction(original_function, n_altered_name)
increment_counter == Callable(n_increment_counter, "increment_counter", <<>>)
\* class Reflection(BaseModel): relevancy: str; next_actions_plan: str
Reflection ==
    Callable(n_Reflection, "model",
             <<Field(k_relevancy, TStr, Undefined), Field(k_next_actions_plan, TStr, Undefined)>>)

\* a class or function object is truthy, None is not
IsNone(x) == x = None

get_name(func, ci) ==
    LET schema_name == IF func.wrapped THEN func.schema_name ELSE func.name IN
    IF ci THEN lower(schema_name) ELSE schema_name

parameters_basemodel_from_function(function) == function.fields

RECURSIVE _is_list_type(_)
_is_list_type(annotation) ==
    \/ annotation.origin = "list"
    \/ /\ annotation.origin \in {"Union", "Optional"}
       /\ \E i \in DOMAIN annotation.args : _is_list_type(annotation.args[i])

\* split_string_to_list without the strip() of each piece
split_string_to_list_unstripped(s) ==
    LET r == json_loads(s)
        pieces == str_split(s, ",")
    IN IF r.ok THEN r.val
       ELSE List([i \in DOMAIN pieces |-> Str(pieces[i])])

split_string_to_list(s) ==
    LET r == json_loads(s)
        pieces == str_split(s, ",")
    IN IF r.ok THEN r.val
       ELSE List([i \in DOMAIN pieces |-> Str(str_strip(pieces[i]))])

\* the body of a callable on its validated arguments: [raised, output]
Invoke(function, values) ==
    CASE function.kind = "model" ->
            [raised |-> None, output |-> ModelInstance(function.name, values)]
      [] function.kind = "no_output" -> [raised |-> None, output |-> None]
      [] function.kind = "increment_counter" -> [raised |-> None, output |-> None]
      [] function.kind = "failing_method" ->
            [raised |-> Exc("Exception", <<"Some exception">>), output |-> None]
      [] function.kind = "original_function" ->
            [raised |-> None, output |-> Str(<<"Result of function_decorated">>)]

FixedNote(field) == Str(<<"Fixed JSON decode error for field ">> \o field)

\* [raised, output, soft_errors, tool_args, called, recorded]: tool_args is the
\* dict as the call leaves it (it is repaired in place), called says the body
\* ran, soft_errors is the list it returns (nothing when it raises) and
\* recorded the notes it had appended to its local list by then
_process_unpacked(function, tool_args, fix) ==
    LET fields == parameters_basemodel_from_function(function)
        isList(f) == _is_list_type(f.annotation)
        toFix(f) == /\ isList(f)
                    /\ f.name \in DOMAIN tool_args.v
                    /\ tool_args.v[f.name].t = "str"
        fixed == IF fix THEN SelectSeq(fields, toFix) ELSE <<>>
        fixedNames == {fixed[i].name : i \in DOMAIN fixed}
        args2 == Dict([k \in DOMAIN tool_args.v |->
                         IF k \in fixedNames THEN split_string_to_list(tool_args.v[k].v)
                         ELSE tool_args.v[k]])
        notes == [i \in DOMAIN fixed |-> FixedNote(fixed[i].name)]
        model_instance == model_validate(fields, args2.v)
        out == Invoke(function, model_instance.val)
        failed(e, args, rec) == [raised |-> e, output |-> None, soft_errors |-> <<>>,
                                 tool_args |-> args, called |-> FALSE, recorded |-> rec]
    IN IF tool_args.t # "dict"
       THEN IF fix /\ \E i \in DOMAIN fields : isList(fields[i])
            THEN failed(Exc("AttributeError", <<"object has no attribute 'get'">>), tool_args, <<>>)
            ELSE failed(Exc("TypeError", <<"argument after ** must be a mapping">>), tool_args, <<>>)
       ELSE IF ~model_instance.ok
       THEN failed(Exc("ValidationError", <<"validation error">>), args2, notes)
       ELSE [raised |-> out.raised, output |-> out.output,
             soft_errors |-> IF IsNone(out.raised) THEN notes ELSE <<>>,
             tool_args |-> args2, called |-> TRUE, recorded |-> notes]

\* [raised, prefix, tool_args]: the keys the prefix class annotates are popped
\* before the prefix is validated
_extract_prefix_unpacked(tool_args, prefix) ==
    LET annotations == {prefix.fields[i].name : i \in DOMAIN prefix.fields}
        popped == [k \in DOMAIN tool_args.v \cap annotations |-> tool_args.v[k]]
        rest == Dict([k \in DOMAIN tool_args.v \ annotations |-> tool_args.v[k]])
        inst == model_validate(prefix.fields, popped)
    IN IF tool_args.t # "dict"
       THEN [raised |-> Exc("AttributeError", <<"object has no attribute 'keys'">>),
             prefix |-> None, tool_args |-> tool_args]
       ELSE IF ~inst.ok
       THEN [raised |-> Exc("ValidationError", <<"validation error">>),
             prefix |-> None, tool_args |-> rest]
       ELSE [raised |-> None, prefix |-> ModelInstance(prefix.name, inst.val),
             tool_args |-> rest]

-----------------------------------------------------------------------------
(* ToolResult and process_tool_call *)

NoTool == 0
Traceback == Str(<<"Traceback (most recent call last):">>)
JSONDecodeError == Exc("JSONDecodeError", <<"Expecting property name enclosed in double quotes">>)
NoMatchingTool(msg) == Exc("NoMatchingTool", msg)

\* tool is the position of the matched callable in the registered list
ToolResult(id, name, output, arguments, error, stack_trace, soft_errors, prefix, tool) ==
    [tool_call_id |-> id, name |-> name, output |-> output, arguments |-> arguments,
     error |-> error, stack_trace |-> stack_trace, soft_errors |-> soft_errors,
     prefix |-> prefix, tool |-> tool]

\* the repair with the second replace only
repair_json_second_only(args) == str_replace(args, <<",", "}">>, <<"}">>)

\* args.replace(', }', '}').replace(',}', '}')
repair_json(args) ==
    str_replace(str_replace(args, <<",", " ", "}">>, <<"}">>), <<",", "}">>, <<"}">>)

\* a loop that keeps the last match, not the first
resolve_last(functions, tool_name, ci) ==
    LET hits == {i \in DOMAIN functions : get_name(functions[i], ci) = tool_name} IN
    IF hits = {} THEN NoTool ELSE CHOOSE i \in hits : \A j \in hits : j <= i

\* the first registered callable whose name is tool_name, or NoTool
resolve(functions, tool_name, ci) ==
    LET hits == {i \in DOMAIN functions : get_name(functions[i], ci) = tool_name} IN
    IF hits = {} THEN NoTool ELSE Min(hits)

\* a variant that cuts the name without the check of line 65
strip_prefix_unchecked(tool_name, prefix, ci) ==
    [tool_name |-> SliceFrom(tool_name, Len(prefix.name \o s_and)), soft |-> <<>>]

\* tool_name after the prefix check, and the soft note the check records
strip_prefix(tool_name, prefix, ci) ==
    LET prefix_name == IF ci THEN lower(prefix.name) ELSE prefix.name IN
    IF ~startswith(tool_name, prefix_name)
    THEN [tool_name |-> tool_name,
          soft |-> <<NoMatchingTool(<<"Function ">> \o tool_name
                                    \o <<" does not match prefix ">> \o prefix_name)>>]
    ELSE [tool_name |-> SliceFrom(tool_name, Len(prefix_name \o s_and)), soft |-> <<>>]

\* what process_tool_call gives: recorded lists every soft error a step
\* appended while the call was processed, in the order of the appends
Raised(e, invoked, recorded) ==
    [raised |-> e, result |-> None, invoked |-> invoked, recorded |-> recorded]
Returned(r, invoked, recorded) ==
    [raised |-> None, result |-> r, invoked |-> invoked, recorded |-> recorded]

\* lines 47-56, [status, tool_args, soft_errors]: status is "ok", "error" (the
\* JSONDecodeError is returned as the result's error) or "raised" (the second
\* json.loads, which no try guards, failed)
decode_repaired(second) ==
    IF second.ok
    THEN [status |-> "ok", tool_args |-> second.val, soft_errors |-> <<JSONDecodeError>>]
    ELSE [status |-> "raised", tool_args |-> None, soft_errors |-> <<JSONDecodeError>>]

decode_first(args, fix, first) ==
    IF first.ok THEN [status |-> "ok", tool_args |-> first.val, soft_errors |-> <<>>]
    ELSE IF fix THEN decode_repaired(json_loads(repair_json(args)))
    ELSE [status |-> "error", tool_args |-> None, soft_errors |-> <<>>]

decode(args, fix) == decode_first(args, fix, json_loads(args))

\* lines 73-79 without the except clause: the callable's exception leaves
finish_reraise(id, tool_name, soft_errors, prefix_inst, tool, run) ==
    IF ~IsNone(run.raised)
    THEN Raised(run.raised, IF run.called THEN <<tool>> ELSE <<>>,
                soft_errors \o run.recorded)
    ELSE Returned(ToolResult(id, tool_name, run.output, run.tool_args, None, None,
                             soft_errors \o run.soft_errors, prefix_inst, tool),
                  <<tool>>, soft_errors \o run.recorded)

\* lines 83-93 after lines 73-79: the ToolResult for the matched callable
finish(id, tool_name, soft_errors, prefix_inst, tool, run) ==
    IF ~IsNone(run.raised)
    THEN Returned(ToolResult(id, tool_name, None, run.tool_args, run.raised, Traceback,
                             soft_errors, prefix_inst, tool),
                  IF run.called THEN <<tool>> ELSE <<>>, soft_errors \o run.recorded)
    ELSE Returned(ToolResult(id, tool_name, run.output, run.tool_args, None, None,
                             soft_errors \o run.soft_errors, prefix_inst, tool),
                  <<tool>>, soft_errors \o run.recorded)

\* lines 69-81: the loop over the registered callables
dispatch_to(id, tool_name, functions, fix, tool_args, soft_errors, prefix_inst, tool) ==
    IF tool = NoTool
    THEN Returned(ToolResult(id, tool_name, None, tool_args,
                             NoMatchingTool(<<"Function ">> \o tool_name \o <<" not found">>),
                             None, soft_errors, prefix_inst, NoTool),
                  <<>>, soft_errors)
    ELSE finish(id, tool_name, soft_errors, prefix_inst, tool,
                _process_unpacked(functions[tool], tool_args, fix))

dispatch(id, tool_name, functions, fix, ci, tool_args, soft_errors, prefix_inst) ==
    dispatch_to(id, tool_name, functions, fix, tool_args, soft_errors, prefix_inst,
                resolve(functions, tool_name, ci))

\* lines 58-67: only a ValidationError of the prefix is caught
with_prefix(call, functions, fix, ci, soft_errors, ext, named) ==
    IF ~IsNone(ext.raised) /\ ext.raised.kind # "ValidationError"
    THEN Raised(ext.raised, <<>>, soft_errors)
    ELSE dispatch(call.id, named.tool_name, functions, fix, ci, ext.tool_args,
                  soft_errors \o (IF IsNone(ext.raised) THEN <<>> ELSE <<ext.raised>>)
                              \o named.soft,
                  ext.prefix)

decoded(call, functions, prefix, fix, ci, d) ==
    IF d.status = "error"
    THEN Returned(ToolResult(call.id, call.name, None, None, JSONDecodeError, Traceback,
                             <<>>, None, NoTool),
                  <<>>, <<>>)
    ELSE IF d.status = "raised" THEN Raised(JSONDecodeError, <<>>, d.soft_errors)
    ELSE IF IsNone(prefix)
    THEN dispatch(call.id, call.name, functions, fix, ci, d.tool_args, d.soft_errors, None)
    ELSE with_prefix(call, functions, fix, ci, d.soft_errors,
                     _extract_prefix_unpacked(d.tool_args, prefix),
                     strip_prefix(call.name, prefix, ci))

\* [raised, result, invoked, recorded]: raised is the exception that left the
\* function (None when it returned), result the ToolResult it returned,
\* invoked the positions of the callables whose body ran
process_tool_call(call, functions, prefix, fix, ci) ==
    decoded(call, functions, prefix, fix, ci, decode(call.arguments, fix))

\* bool(x)
Truthy(x) ==
    CASE x.t = "None" -> FALSE
      [] x.t = "num" -> x.v # 0
      [] x.t = "bool" -> x.v
      [] x.t \in {"str", "list"} -> x.v # <<>>
      [] x.t = "dict" -> DOMAIN x.v # {}
      [] OTHER -> TRUE

\* str(x)
PyStr(x) ==
    CASE x.t = "str" -> x.v
      [] x.t = "exc" -> x.msg
      [] x.t = "num" -> IntToText(x.v)
      [] x.t = "None" -> <<"None">>
      [] OTHER -> <<"<repr>">>

to_message(self) ==
    LET content == IF Truthy(self.error) THEN PyStr(self.error)
                   ELSE IF Truthy(self.output) THEN PyStr(self.output)
                   ELSE <<>>
    IN [role |-> "tool", tool_call_id |-> self.tool_call_id, name |-> self.name,
        content |-> IF self.output.t = "model" THEN self.name \o <<" created">> ELSE content]

-----------------------------------------------------------------------------
(* Dispatch of one call: process_tool_call, then to_message on its result  *)

MaxFunctions == 2

Pool == {failing_method, User, user, function_decorated}

Registries == UNION {[1..n -> Pool] : n \in 0..MaxFunctions}

CallNames ==
    {n_failing_method, n_User, n_user, n_altered_name, n_InvalidFunction,
     n_Reflection \o s_and \o n_User,
     lower(n_Reflection) \o s_and \o n_user,
     n_Reflection \o n_User,
     n_User \o s_and \o n_User,
     n_user \o s_and \o n_user}

Item(k, v) == [k |-> k, v |-> v]
JohnDoe == List(<<Str(<<"John">>), Str(<<"Doe">>)>>)

\* what the caller meant to send, before it was written as text
Values ==
    {Items(<<>>),
     Items(<<Item(k_arg, Num(2))>>),
     Items(<<Item(k_names, Str(<<"John", ",", " ", "Doe">>))>>),
     Items(<<Item(k_names, Str(json_dumps(JohnDoe)))>>),
     Items(<<Item(k_names, JohnDoe)>>),
     Items(<<Item(k_names, Str(<<"John", ",", "}">>))>>),
     Items(<<Item(k_names, Str(<<"2">>))>>),
     Items(<<Item(k_relevancy, Str(<<"yes">>)), Item(k_next_actions_plan, Str(<<"stop">>)),
             Item(k_names, Str(<<" ", "John", " ", ",", "Doe">>))>>),
     List(<<>>),
     Str(<<"{", "}">>)}

\* the values that are also sent misspelled
Misspelled ==
    {Items(<<Item(k_arg, Num(2))>>),
     Items(<<Item(k_names, Str(<<"John", ",", "}">>))>>),
     Items(<<Item(k_relevancy, Str(<<"yes">>)), Item(k_next_actions_plan, Str(<<"stop">>)),
             Item(k_names, Str(<<" ", "John", " ", ",", "Doe">>))>>)}

\* how the text was spelled: as json.dumps writes it, with a trailing comma
\* before the closing brace, or cut before the closing brace
Spellings == {"clean", ", }", ",}", "cut"}

Write(value, spelling) ==
    LET clean == json_dumps(value)
        open == SubSeq(clean, 1, Len(clean) - 1)
    IN CASE spelling = "clean" -> clean
         [] spelling = ", }" -> open \o <<",", " ", "}">>
         [] spelling = ",}" -> open \o <<",", "}">>
         [] spelling = "cut" -> open

Intended ==
    {[value |-> v, spelling |-> "clean"] : v \in Values}
    \cup {[value |-> v, spelling |-> sp] : v \in Misspelled, sp \in Spellings \ {"clean"}}

NoRet == [raised |-> None, result |-> None, invoked |-> <<>>, recorded |-> <<>>]

\* the variables of the batch entry points and of the schema transform, idle
BatchIdle ==
    /\ tool_calls = <<>> /\ function_call = None /\ index = 0
    /\ executor = FALSE /\ queue = <<>>
    /\ worker = <<>> /\ futures = <<>> /\ results = <<>>
    /\ counter = 0 /\ calls_made = 0
NoSchema == [raised |-> None, ret |-> None]
NoMerge == [raised |-> None, ret |-> None, schema |-> None]
SchemaIdle ==
    /\ schema = None /\ strict_done = FALSE
    /\ strict = FALSE /\ derived = NoSchema
    /\ prefix_schema_name = TRUE /\ new_schema = NoMerge /\ merges = 0
DispatchIdle ==
    /\ tool_call = None /\ intended = None /\ ret = NoRet /\ message = None

\* no prefix type, the prefix type of the tests, and a prefix type that
\* declares the field a registered callable declares too
Prefixes == {None, Reflection, User}

Init ==
    /\ pc = "call"
    /\ intended \in Intended
    /\ \E name \in CallNames :
          tool_call = [id |-> "A", name |-> name,
                       arguments |-> Write(intended.value, intended.spelling)]
    /\ functions_or_models \in Registries
    /\ prefix_class \in Prefixes
    /\ fix_json_args \in BOOLEAN
    /\ case_insensitive \in BOOLEAN
    /\ ret = NoRet
    /\ message = None
    /\ BatchIdle
    /\ SchemaIdle

ProcessToolCall ==
    /\ pc = "call"
    /\ ret' = process_tool_call(tool_call, functions_or_models, prefix_class,
                                fix_json_args, case_insensitive)
    /\ pc' = "done"
    /\ UNCHANGED <<tool_call, intended, message, optionVars, batchVars, schemaVars>>

ToMessage ==
    /\ pc = "done"
    /\ IsNone(ret.raised)
    /\ message' = to_message(ret.result)
    /\ pc' = "replied"
    /\ UNCHANGED <<tool_call, intended, ret, optionVars, batchVars, schemaVars>>

Next == ProcessToolCall \/ ToMessage

Spec == Init /\ [][Next]_vars


-----------------------------------------------------------------------------
(* Properties of one dispatched call                                       *)

Done == pc \in {"done", "replied"}
KindOf(e) == IF IsNone(e) THEN "" ELSE e.kind
Contains(s, sub) ==
    \E k \in 0..(Len(s) - Len(sub)) : SubSeq(s, k + 1, k + Len(sub)) = sub

\* process_tool_call returned a ToolResult and got past decoding
Resolving == Done /\ IsNone(ret.raised) /\ KindOf(ret.result.error) # "JSONDecodeError"

\* the positions of the registered callables that answer to name
Matching(name) ==
    {i \in DOMAIN functions_or_models :
        get_name(functions_or_models[i], case_insensitive) = name}

\* the arguments as the caller meant them, and what is left of them for the
\* callable once the prefix type has taken the keys it annotates
Sent == DictOf(intended.value.v)
PrefixKeys ==
    IF IsNone(prefix_class) THEN {}
    ELSE {prefix_class.fields[i].name : i \in DOMAIN prefix_class.fields}
ForCallable == [k \in DOMAIN Sent \ PrefixKeys |-> Sent[k]]

TrailingComma == intended.spelling \in {", }", ",}"}

\* C1: process_tool_call never raises to its caller: whatever the call name,
\* the raw arguments text, the registered callables and the options, it
\* returns one ToolResult.
C1_NeverRaises == Done => (IsNone(ret.raised) /\ ~IsNone(ret.result))

\* C2: raw arguments that are an object's text with a trailing comma before
\* the closing brace (", }" or ",}").  With fix_json_args the call returns a
\* ToolResult whose first soft error is the parse error, whose arguments are
\* the decoded object, whose tool is a callable answering to the name when
\* there is one, and whose output is what that callable gives on the
\* arguments when they validate; without fix_json_args the ToolResult carries
\* the JSONDecodeError as error, nothing is invoked, and output, arguments,
\* soft_errors and tool are empty.
C2_TrailingCommaRepair ==
    (Done /\ TrailingComma) =>
        IF fix_json_args
        THEN /\ IsNone(ret.raised)
             /\ ret.result.soft_errors # <<>>
             /\ ret.result.soft_errors[1] = JSONDecodeError
             /\ ret.result.arguments.t = "dict"
             /\ DOMAIN ret.result.arguments.v = DOMAIN ForCallable
             /\ Matching(ret.result.name) # {} => ret.result.tool \in Matching(ret.result.name)
             /\ (ret.result.tool # NoTool /\ IsNone(ret.result.error)) =>
                    /\ ret.invoked = <<ret.result.tool>>
                    /\ ret.result.output =
                          Invoke(functions_or_models[ret.result.tool],
                                 model_validate(functions_or_models[ret.result.tool].fields,
                                                ret.result.arguments.v).val).output
        ELSE /\ IsNone(ret.raised)
             /\ ret.result.error = JSONDecodeError
             /\ ret.invoked = <<>>
             /\ IsNone(ret.result.output)
             /\ IsNone(ret.result.arguments)
             /\ ret.result.soft_errors = <<>>
             /\ ret.result.tool = NoTool

\* a repaired call came back with the callable's output
C2_Witness ==
    /\ Done /\ TrailingComma /\ fix_json_args /\ IsNone(ret.raised)
    /\ ret.result.tool # NoTool
    /\ ~IsNone(ret.result.output)
    /\ ret.result.soft_errors # <<>>

\* C3: when the body of the resolved callable raises, process_tool_call
\* returns: the ToolResult has that exception as error, a stack trace, no
\* output and the matched callable as tool, and the message rendered from
\* it has the exception's text in its content.
C3_CallableRaises ==
    \A i \in DOMAIN functions_or_models :
        (Done /\ ret.invoked = <<i>> /\ functions_or_models[i].kind = "failing_method") =>
            /\ IsNone(ret.raised)
            /\ ret.result.error = Exc("Exception", <<"Some exception">>)
            /\ ~IsNone(ret.result.stack_trace)
            /\ IsNone(ret.result.output)
            /\ ret.result.tool = i
            /\ pc = "replied" => Contains(message.content, <<"Some exception">>)

\* the failing callable ran and its result was rendered
C3_Witness ==
    /\ pc = "replied"
    /\ ret.invoked # <<>>
    /\ functions_or_models[ret.invoked[1]].kind = "failing_method"

\* the name the callables are compared with: the call name, or what is left
\* of it behind the prefix name and "_and_"
PrefixName ==
    IF case_insensitive THEN lower(prefix_class.name) ELSE prefix_class.name
StrippedName(name) ==
    IF IsNone(prefix_class) \/ ~startswith(tool_call.name, PrefixName)
    THEN name = tool_call.name
    ELSE /\ \E k \in 0..Len(tool_call.name) : name = SliceFrom(tool_call.name, k)
         /\ startswith(tool_call.name, PrefixName \o s_and)
               => PrefixName \o s_and \o name = tool_call.name

\* the errors raised while the arguments are prepared, before the body runs
ArgumentErrors == {"ValidationError", "TypeError", "AttributeError"}

\* C6: once the arguments are decoded, the ToolResult's name is the
\* (stripped) call name; its tool is the first callable, in registration
\* order, whose get_name (folded when case_insensitive) equals that name, and
\* that callable is the only one invoked (it is invoked unless its arguments
\* are rejected); when none matches nothing is invoked, the error is a
\* NoMatchingTool naming the name, and tool and output are absent.
C6_FirstMatch ==
    Resolving =>
        /\ StrippedName(ret.result.name)
        /\ IF Matching(ret.result.name) = {}
           THEN /\ ret.invoked = <<>>
                /\ KindOf(ret.result.error) = "NoMatchingTool"
                /\ Contains(ret.result.error.msg, ret.result.name)
                /\ ret.result.tool = NoTool
                /\ IsNone(ret.result.output)
           ELSE /\ ret.result.tool \in Matching(ret.result.name)
                /\ \A j \in Matching(ret.result.name) : ret.result.tool <= j
                /\ ret.invoked =
                      IF KindOf(ret.result.error) \in ArgumentErrors
                      THEN <<>> ELSE <<ret.result.tool>>

\* two different callables answer to the name and the first one ran
C6_Witness ==
    /\ Resolving
    /\ Cardinality(Matching(ret.result.name)) = 2
    /\ functions_or_models[1] # functions_or_models[2]
    /\ ret.invoked = <<1>>

\* no callable answers to the name
C6_WitnessNoMatch ==
    /\ Resolving
    /\ functions_or_models # <<>>
    /\ Matching(ret.result.name) = {}

\* C7: with case_insensitive, a call whose name equals a registered
\* callable's name once both are case-folded resolves to such a callable.
C7_CaseInsensitiveMatch ==
    (Resolving /\ case_insensitive /\ IsNone(prefix_class)) =>
        \A i \in DOMAIN functions_or_models :
            lower(get_name(functions_or_models[i], FALSE)) = lower(tool_call.name) =>
                /\ ret.result.tool # NoTool
                /\ lower(get_name(functions_or_models[ret.result.tool], FALSE))
                      = lower(tool_call.name)

\* the decoded arguments are the ones the caller meant: the text was written
\* by json.dumps, or it was repaired and no string in it held what the
\* repair replaces
Faithful ==
    /\ intended.value.t = "items"
    /\ \/ intended.spelling = "clean"
       \/ /\ TrailingComma
          /\ \A k \in DOMAIN Sent :
                Sent[k].t = "str" => /\ ~Contains(Sent[k].v, <<",", "}">>)
                                     /\ ~Contains(Sent[k].v, <<",", " ", "}">>)

\* the fields of the resolved callable that are declared list-compatible and
\* were given a string
StringForList ==
    {i \in DOMAIN functions_or_models[ret.result.tool].fields :
        LET f == functions_or_models[ret.result.tool].fields[i] IN
        /\ _is_list_type(f.annotation)
        /\ f.name \in DOMAIN ForCallable
        /\ ForCallable[f.name].t = "str"}

\* the j-th comma-separated piece of s
CommaAt(s) == {i \in DOMAIN s : s[i] = ","}
CommasUpTo(s, i) == Cardinality({c \in CommaAt(s) : c <= i})
Piece(s, j) ==
    LET from == IF j = 1 THEN 1
                ELSE 1 + CHOOSE i \in CommaAt(s) : CommasUpTo(s, i) = j - 1
        to == IF j = Cardinality(CommaAt(s)) + 1 THEN Len(s)
              ELSE (CHOOSE i \in CommaAt(s) : CommasUpTo(s, i) = j) - 1
    IN SubSeq(s, from, to)

\* p is seg without its leading and trailing whitespace
TrimOf(p, seg) ==
    /\ p = <<>> \/ (p[1] \notin Whitespace /\ p[Len(p)] \notin Whitespace)
    /\ \E a \in 0..Len(seg) : \E b \in 0..(Len(seg) - a) :
          /\ SubSeq(seg, a + 1, Len(seg) - b) = p
          /\ \A i \in (1..a) \cup ((Len(seg) - b + 1)..Len(seg)) : seg[i] \in Whitespace

\* v is what the repair makes of the string s
ListFromString(s, v) ==
    IF json_loads(s).ok THEN v = json_loads(s).val
    ELSE /\ v.t = "list"
         /\ Len(v.v) = Cardinality(CommaAt(s)) + 1
         /\ \A j \in DOMAIN v.v : v.v[j].t = "str" /\ TrimOf(v.v[j].v, Piece(s, j))

Recorded(note) == \E n \in DOMAIN ret.recorded : ret.recorded[n] = note

\* what C9 says of a string given for a list-compatible field when
\* fix_json_args is set: validation gets the JSON parse of the string, or its
\* trimmed comma-separated pieces, and a note is recorded for the field
ListFieldRepaired(f) ==
    /\ ListFromString(ForCallable[f.name].v, ret.result.arguments.v[f.name])
    /\ Recorded(FixedNote(f.name))

\* C9 as stated: ... with fix_json_args=false the string is left as is and
\* the result is a validation hard error.
C9_ListFieldRepairAsStated ==
    (Resolving /\ ret.result.tool # NoTool /\ Faithful) =>
        \A i \in StringForList :
            LET f == functions_or_models[ret.result.tool].fields[i] IN
            IF fix_json_args THEN ListFieldRepaired(f)
            ELSE /\ ret.result.arguments.v[f.name] = ForCallable[f.name]
                 /\ KindOf(ret.result.error) = "ValidationError"

\* C9, amended: for every field of the resolved callable declared as a
\* list-compatible type whose decoded value is a string: with fix_json_args
\* the value handed to validation is the JSON parse of the string when it
\* parses, otherwise the list of its comma-separated pieces, trimmed, in
\* order, and a note is recorded for the field; without fix_json_args the
\* string is left as is, and the result is a validation hard error unless
\* the declared type also accepts a string, in which case the string
\* validates and the callable is invoked with it.
C9_ListFieldRepair ==
    (Resolving /\ ret.result.tool # NoTool /\ Faithful) =>
        \A i \in StringForList :
            LET f == functions_or_models[ret.result.tool].fields[i] IN
            IF fix_json_args THEN ListFieldRepaired(f)
            ELSE /\ ret.result.arguments.v[f.name] = ForCallable[f.name]
                 /\ IF validate(ForCallable[f.name], f.annotation).ok
                    THEN ret.invoked = <<ret.result.tool>>
                    ELSE KindOf(ret.result.error) = "ValidationError"

\* a string with blanks around a comma was split and trimmed
C9_Witness ==
    /\ Resolving /\ ret.result.tool # NoTool /\ Faithful /\ fix_json_args
    /\ \E i \in StringForList :
          LET f == functions_or_models[ret.result.tool].fields[i] IN
          /\ ~json_loads(ForCallable[f.name].v).ok
          /\ \E j \in DOMAIN ForCallable[f.name].v : ForCallable[f.name].v[j] \in Whitespace
          /\ Len(ret.result.arguments.v[f.name].v) = 2

-----------------------------------------------------------------------------
(* process_message and process_response: a batch of calls, mapped in the   *)
(* caller's thread by map or by the worker threads of a ThreadPoolExecutor *)

MaxCalls == 3
MaxWorkers == 2

Ids == <<"A", "B", "C", "D", "E">>
Workers == 1..MaxWorkers

BatchFunctions == <<increment_counter, failing_method, User>>

\* the calls a message is made of, but for their id: mk_tool_call("increment_counter", {}),
\* mk_tool_call("failing_method", {"arg": 2}), a call of User whose arguments
\* were cut before the closing brace, a call of a name that is not registered
BatchCalls ==
    {[name |-> n_increment_counter, arguments |-> Write(Items(<<>>), "clean")],
     [name |-> n_failing_method, arguments |-> Write(Items(<<Item(k_arg, Num(2))>>), "clean")],
     [name |-> n_User, arguments |-> Write(Items(<<Item(k_names, JohnDoe)>>), "cut")],
     [name |-> n_InvalidFunction, arguments |-> Write(Items(<<>>), "clean")]}

Messages == UNION {[1..n -> BatchCalls] : n \in 0..MaxCalls}

Pending == [t |-> "pending"]
\* a worker thread: what it is at, the position of the call it runs, what
\* process_tool_call gives for that call, the value it read from self.counter
Idle == [at |-> "idle", task |-> 0, run |-> NoRet, loaded |-> 0]

\* process_tool_call on the call at position i of the message (lines 134-136)
Outcome(i) ==
    process_tool_call(tool_calls[i], functions_or_models, prefix_class,
                      fix_json_args, case_insensitive)

\* the body that ran is increment_counter: self.counter += 1
EntersCounter(r) ==
    /\ r.invoked # <<>>
    /\ functions_or_models[r.invoked[1]].kind = "increment_counter"

InitBatch ==
    /\ pc = "start"
    /\ \E m \in Messages :
          tool_calls = [i \in DOMAIN m |->
                          [id |-> Ids[i], name |-> m[i].name, arguments |-> m[i].arguments]]
    /\ executor \in BOOLEAN
    /\ functions_or_models = BatchFunctions
    /\ prefix_class = None
    /\ fix_json_args \in BOOLEAN
    /\ case_insensitive = FALSE
    /\ function_call = None /\ index = 0
    /\ queue = <<>>
    /\ worker = [w \in Workers |-> Idle]
    /\ futures = <<>>
    /\ results = <<>>
    /\ counter = 0 /\ calls_made = 0
    /\ DispatchIdle
    /\ SchemaIdle

\* lines 130-136 up to the call of map: executor.map submits every call
\* before it returns the iterator that list() consumes
ProcessMessage ==
    /\ pc = "start"
    /\ IF tool_calls = <<>>
       THEN pc' = "returned" /\ UNCHANGED <<queue, futures>>
       ELSE IF executor
       THEN /\ pc' = "collect"
            /\ queue' = [i \in DOMAIN tool_calls |-> i]
            /\ futures' = [i \in DOMAIN tool_calls |-> Pending]
       ELSE pc' = "map" /\ UNCHANGED <<queue, futures>>
    /\ UNCHANGED <<tool_call, intended, ret, message, optionVars, schemaVars,
                   tool_calls, function_call, index, executor, worker, results,
                   counter, calls_made>>

\* list(map(...)): the next call is processed in the caller's thread; an
\* exception leaving process_tool_call leaves process_message
MapNext ==
    /\ pc = "map"
    /\ \E r \in {Outcome(Len(results) + 1)} :
          IF ~IsNone(r.raised)
          THEN pc' = "raised" /\ UNCHANGED <<results, counter, calls_made>>
          ELSE /\ results' = Append(results, r.result)
               /\ pc' = IF Len(results) + 1 = Len(tool_calls) THEN "returned" ELSE "map"
               /\ IF EntersCounter(r)
                  THEN counter' = counter + 1 /\ calls_made' = calls_made + 1
                  ELSE UNCHANGED <<counter, calls_made>>
    /\ UNCHANGED <<tool_call, intended, ret, message, optionVars, schemaVars,
                   tool_calls, function_call, index, executor, queue, worker, futures>>

\* a worker thread takes the oldest submitted call and runs process_tool_call
\* on it, to its end or, in increment_counter, up to the read of self.counter
Take(w) ==
    /\ worker[w].at = "idle"
    /\ queue # <<>>
    /\ queue' = Tail(queue)
    /\ \E r \in {Outcome(Head(queue))} :
          IF EntersCounter(r)
          THEN /\ worker' = [worker EXCEPT ![w] = [at |-> "loaded", task |-> Head(queue),
                                                   run |-> r, loaded |-> counter]]
               /\ calls_made' = calls_made + 1
               /\ UNCHANGED futures
          ELSE /\ futures' = [futures EXCEPT ![Head(queue)] = r]
               /\ UNCHANGED <<worker, calls_made>>
    /\ UNCHANGED <<pc, tool_call, intended, ret, message, optionVars, schemaVars,
                   tool_calls, function_call, index, executor, results, counter>>

\* the write of self.counter += 1, then the call returns and its future is set
Store(w) ==
    /\ worker[w].at = "loaded"
    /\ counter' = worker[w].loaded + 1
    /\ futures' = [futures EXCEPT ![worker[w].task] = worker[w].run]
    /\ worker' = [worker EXCEPT ![w] = Idle]
    /\ UNCHANGED <<pc, tool_call, intended, ret, message, optionVars, schemaVars,
                   tool_calls, function_call, index, executor, queue, results,
                   calls_made>>

\* list() takes the next result from the iterator of executor.map, in the
\* order of submission; a call that raised raises here, and the iterator
\* cancels the calls no worker has taken
Collect ==
    /\ pc = "collect"
    /\ futures[Len(results) + 1] # Pending
    /\ IF ~IsNone(futures[Len(results) + 1].raised)
       THEN pc' = "raised" /\ queue' = <<>> /\ UNCHANGED results
       ELSE /\ results' = Append(results, futures[Len(results) + 1].result)
            /\ pc' = IF Len(results) + 1 = Len(tool_calls) THEN "returned" ELSE "collect"
            /\ UNCHANGED queue
    /\ UNCHANGED <<tool_call, intended, ret, message, optionVars, schemaVars,
                   tool_calls, function_call, index, executor, worker, futures,
                   counter, calls_made>>

NextBatch ==
    \/ ProcessMessage
    \/ MapNext
    \/ \E w \in Workers : Take(w)
    \/ \E w \in Workers : Store(w)
    \/ Collect

SpecBatch == InitBatch /\ [][NextBatch]_vars

\* C4: process_message returns one ToolResult per tool call of the message,
\* the i-th being the outcome of the i-th call, with map and with an executor
\* under every interleaving; a message without calls yields the empty list.
C4_OneResultPerCall ==
    pc \in {"returned", "raised"} =>
        /\ pc = "returned"
        /\ Len(results) = Len(tool_calls)
        /\ \A i \in DOMAIN tool_calls : results[i] = Outcome(i).result

\* C5: a batch of N calls of increment_counter through an executor with
\* several workers: once process_message has returned, the counter is N and
\* no result carries an error.
C5_CounterCountsEveryCall ==
    (/\ pc = "returned"
     /\ executor
     /\ \A i \in DOMAIN tool_calls : tool_calls[i].name = n_increment_counter) =>
        /\ counter = Len(tool_calls)
        /\ \A i \in DOMAIN results : IsNone(results[i].error)

-----------------------------------------------------------------------------
(* process_one_tool_call                                                   *)

MaxIndex == 3
MaxOneCalls == 2

OneCalls ==
    {[name |-> n_User, arguments |-> Write(Items(<<Item(k_names, JohnDoe)>>), "clean")],
     [name |-> n_User, arguments |-> Write(Items(<<Item(k_names, Str(<<"Bob">>))>>), "clean")],
     [name |-> n_InvalidFunction, arguments |-> Write(Items(<<>>), "clean")]}

\* l[index] of a Python list: [ok, val]; not ok is an IndexError
list_getitem(l, i) ==
    IF 0 <= i /\ i < Len(l) THEN [ok |-> TRUE, val |-> l[i + 1]]
    ELSE IF i < 0 /\ -Len(l) <= i THEN [ok |-> TRUE, val |-> l[Len(l) + i + 1]]
    ELSE [ok |-> FALSE, val |-> None]

InitOne ==
    /\ pc = "one"
    /\ \E m \in UNION {[1..n -> OneCalls] : n \in 0..MaxOneCalls} :
          tool_calls = [i \in DOMAIN m |->
                          [id |-> Ids[i], name |-> m[i].name, arguments |-> m[i].arguments]]
    /\ function_call \in {None, [name |-> n_User, arguments |-> Write(Items(<<>>), "clean")]}
    /\ index \in (-MaxIndex)..MaxIndex
    /\ functions_or_models = <<User>>
    /\ prefix_class = None
    /\ fix_json_args \in BOOLEAN
    /\ case_insensitive \in BOOLEAN
    /\ executor = FALSE /\ queue = <<>> /\ worker = <<>> /\ futures = <<>>
    /\ results = <<>> /\ counter = 0 /\ calls_made = 0
    /\ DispatchIdle
    /\ SchemaIdle

\* _get_tool_calls (lines 142-144): with a function_call the list is built
\* with Function, a name the module never binds, which is a NameError
GetToolCalls ==
    /\ pc = "one"
    /\ IF ~IsNone(function_call)
       THEN /\ ret' = Raised(Exc("NameError", <<"name 'Function' is not defined">>), <<>>, <<>>)
            /\ pc' = "raised"
       ELSE pc' = "select" /\ UNCHANGED ret
    /\ UNCHANGED <<tool_call, intended, message, optionVars, batchVars, schemaVars>>

\* line 140: tool_calls[index] is evaluated when the list is not empty and
\* index < len(tool_calls)
SelectCall ==
    /\ pc = "select"
    /\ IF tool_calls # <<>> /\ index < Len(tool_calls)
       THEN IF list_getitem(tool_calls, index).ok
            THEN /\ ret' = process_tool_call(list_getitem(tool_calls, index).val,
                                             functions_or_models, prefix_class,
                                             fix_json_args, case_insensitive)
                 /\ pc' = IF IsNone(ret'.raised) THEN "returned" ELSE "raised"
            ELSE /\ ret' = Raised(Exc("IndexError", <<"list index out of range">>), <<>>, <<>>)
                 /\ pc' = "raised"
       ELSE ret' = NoRet /\ pc' = "returned"
    /\ UNCHANGED <<tool_call, intended, message, optionVars, batchVars, schemaVars>>

NextOne == GetToolCalls \/ SelectCall

SpecOne == InitOne /\ [][NextOne]_vars

\* C8: for a response that carries its calls in tool_calls,
\* process_one_tool_call returns the ToolResult of the call at the requested
\* position when the call list has that position, and returns None without
\* raising for every other position, whatever the list.
C8_PositionOrNone ==
    (pc \in {"returned", "raised"} /\ IsNone(function_call)) =>
        /\ IsNone(ret.raised)
        /\ IF index \in 0..(Len(tool_calls) - 1)
           THEN ret.result = Outcome(index + 1).result
           ELSE IsNone(ret.result)

-----------------------------------------------------------------------------
(* to_strict_json_schema.  A schema node is a Dict over its keywords; the  *)
(* mappings under "properties" and "$defs" are Items, dicts whose key      *)
(* order is kept.                                                          *)

MaxDepth == 2

is_dict(obj) == obj.t \in {"dict", "items"}

\* dict.get(key)
get(d, key) == IF key \in DOMAIN d THEN d[key] ELSE None

T_object == Str(<<"object">>)
T_string == Str(<<"string">>)
T_array == Str(<<"array">>)
T_null == Str(<<"null">>)

\* lines 240-275.  Each step reads and writes keys no other step writes
\* ("required" is written by the step of "properties" only), so the result
\* is given key by key.
RECURSIVE _ensure_strict_json_schema(_)
_ensure_strict_json_schema(json_schema) ==
    Dict([k \in DOMAIN json_schema.v
               \cup (IF get(json_schema.v, "type") = T_object THEN {"additionalProperties"} ELSE {})
               \cup (IF is_dict(get(json_schema.v, "properties")) THEN {"required"} ELSE {}) |->
            CASE k = "additionalProperties" ->
                    IF k \in DOMAIN json_schema.v THEN json_schema.v[k] ELSE Bool(FALSE)
              [] k = "required" ->
                    IF is_dict(get(json_schema.v, "properties"))
                    THEN List([i \in DOMAIN json_schema.v["properties"].v |->
                                 Str(json_schema.v["properties"].v[i].k)])
                    ELSE json_schema.v[k]
              [] k \in {"properties", "$defs"} ->
                    IF is_dict(json_schema.v[k])
                    THEN Items([i \in DOMAIN json_schema.v[k].v |->
                                  Item(json_schema.v[k].v[i].k,
                                       _ensure_strict_json_schema(json_schema.v[k].v[i].v))])
                    ELSE json_schema.v[k]
              [] k = "items" ->
                    IF is_dict(json_schema.v[k]) THEN _ensure_strict_json_schema(json_schema.v[k])
                    ELSE json_schema.v[k]
              [] k \in {"anyOf", "allOf"} ->
                    IF json_schema.v[k].t = "list"
                    THEN List([i \in DOMAIN json_schema.v[k].v |->
                                 _ensure_strict_json_schema(json_schema.v[k].v[i])])
                    ELSE json_schema.v[k]
              [] OTHER -> json_schema.v[k]])

to_strict_json_schema(s) == _ensure_strict_json_schema(s)

\* the schema trees the transform is given: every node is a dict, as in the
\* schemas model_json_schema() emits, so the TypeError of line 240 is not met
StringNode == Dict("type" :> T_string)
ObjectNode == Dict("type" :> T_object)
\* a mapping that takes any key, as emitted for a Dict field
OpenObjectNode == Dict(("type" :> T_object) @@ ("additionalProperties" :> Bool(TRUE)))

Leaves == {StringNode, ObjectNode, OpenObjectNode}

\* the nodes with c below them: a model with a required and a defaulted
\* field, the same model allowing extra keys, a list, an Optional, an allOf
\* wrapper and a root whose field refers to a definition
Above(c) ==
    {Dict(("type" :> T_object)
          @@ ("properties" :> Items(<<Item(<<"street">>, c), Item(<<"city">>, StringNode)>>))
          @@ ("required" :> List(<<Str(<<"street">>)>>))),
     Dict(("type" :> T_object)
          @@ ("properties" :> Items(<<Item(<<"street">>, c)>>))
          @@ ("additionalProperties" :> Bool(TRUE))),
     Dict(("type" :> T_array) @@ ("items" :> c)),
     Dict("anyOf" :> List(<<c, Dict("type" :> T_null)>>)),
     Dict("allOf" :> List(<<c>>)),
     Dict(("type" :> T_object)
          @@ ("properties" :> Items(<<Item(<<"addresses">>, Dict("$ref" :> Str(<<"#/$defs/Address">>)))>>))
          @@ ("$defs" :> Items(<<Item(<<"Address">>, c)>>)))}

RECURSIVE SchemaTrees(_)
SchemaTrees(depth) ==
    IF depth = 0 THEN Leaves
    ELSE Leaves \cup UNION {Above(c) : c \in SchemaTrees(depth - 1)}

InitStrict ==
    /\ pc = "strict"
    /\ schema \in SchemaTrees(MaxDepth)
    /\ strict_done = FALSE
    /\ strict = FALSE /\ derived = NoSchema
    /\ prefix_schema_name = TRUE /\ new_schema = NoMerge /\ merges = 0
    /\ functions_or_models = <<>> /\ prefix_class = None
    /\ fix_json_args = TRUE /\ case_insensitive = FALSE
    /\ DispatchIdle
    /\ BatchIdle

ToStrictJsonSchema ==
    /\ pc = "strict"
    /\ schema' = to_strict_json_schema(schema)
    /\ strict_done' = TRUE
    /\ pc' = "strict_done"
    /\ UNCHANGED <<tool_call, intended, ret, message, optionVars, batchVars,
                   strict, derived, prefix_schema_name, new_schema, merges>>

NextStrict == ToStrictJsonSchema

SpecStrict == InitStrict /\ [][NextStrict]_vars

\* the nodes below a node, through properties, items, anyOf, allOf and $defs
Below(n) ==
    (IF is_dict(get(n.v, "properties"))
     THEN {n.v["properties"].v[i].v : i \in DOMAIN n.v["properties"].v} ELSE {})
    \cup (IF is_dict(get(n.v, "$defs"))
          THEN {n.v["$defs"].v[i].v : i \in DOMAIN n.v["$defs"].v} ELSE {})
    \cup (IF is_dict(get(n.v, "items")) THEN {n.v["items"]} ELSE {})
    \cup (IF get(n.v, "anyOf").t = "list"
          THEN {n.v["anyOf"].v[i] : i \in DOMAIN n.v["anyOf"].v} ELSE {})
    \cup (IF get(n.v, "allOf").t = "list"
          THEN {n.v["allOf"].v[i] : i \in DOMAIN n.v["allOf"].v} ELSE {})

\* an object node refuses additional properties, and a node with properties
\* requires every one of them
StrictNode(n) ==
    /\ get(n.v, "type") = T_object => get(n.v, "additionalProperties") = Bool(FALSE)
    /\ is_dict(get(n.v, "properties")) =>
          /\ get(n.v, "required").t = "list"
          /\ \A i \in DOMAIN n.v["properties"].v :
                \E j \in DOMAIN n.v["required"].v :
                    n.v["required"].v[j] = Str(n.v["properties"].v[i].k)

RECURSIVE StrictEverywhere(_)
StrictEverywhere(n) == StrictNode(n) /\ \A c \in Below(n) : StrictEverywhere(c)

\* C10: after to_strict_json_schema, every node of type "object" has
\* additionalProperties false and every node with properties lists every
\* property key as required, at every node reachable through properties,
\* items, anyOf, allOf and $defs.
C10_StrictEverywhere == strict_done => StrictEverywhere(schema)

-----------------------------------------------------------------------------
(* Schema derivation: parameters_basemodel_from_function, the schema       *)
(* model_json_schema() emits for the parameter model, the lenient purge of *)
(* titles and get_function_schema.  In a mapping under "properties" the    *)
(* key 'title' is written <<"title">>, as every property name is.          *)

TFloat == [origin |-> "", base |-> "float", args |-> <<>>]
T_integer == Str(<<"integer">>)
T_number == Str(<<"number">>)

k_count == <<"count">>
k_size == <<"size">>
k_apple == <<"apple">>
k_banana == <<"banana">>
k_title == <<"title">>
k_type == <<"type">>

n_simple_function == <<"s", "i", "m", "p", "l", "e", "_", "f", "u", "n", "c", "t", "i", "o", "n">>
n_simple_function_no_docstring == n_simple_function \o <<"_", "n", "o", "_", "d", "o", "c", "s", "t", "r", "i", "n", "g">>
n_function_no_params == <<"f", "u", "n", "c", "t", "i", "o", "n", "_", "n", "o", "_", "p", "a", "r", "a", "m", "s">>
n_Publish == <<"P", "u", "b", "l", "i", "s", "h">>
n_Empty == <<"E", "m", "p", "t", "y">>
n_Hints == <<"H", "i", "n", "t", "s">>
s_ParameterModel == <<"_", "P", "a", "r", "a", "m", "e", "t", "e", "r", "M", "o", "d", "e", "l">>

\* Annotated[type, description]: the parameter carries a description
Described(field, description) == [name |-> field.name, annotation |-> field.annotation,
                                  default |-> field.default, description |-> description]

\* def simple_function(count: int, size: Optional[float] = None)
simple_function ==
    Callable(n_simple_function, "no_output",
             <<Field(k_count, TInt, Undefined), Field(k_size, TOptional(TFloat), None)>>)
\* def simple_function_no_docstring(apple: Annotated[str, 'The apple'],
\*                                  banana: Annotated[str, 'The banana'])
simple_function_no_docstring ==
    Callable(n_simple_function_no_docstring, "no_output",
             <<Described(Field(k_apple, TStr, Undefined), Str(<<"The apple">>)),
               Described(Field(k_banana, TStr, Undefined), Str(<<"The banana">>))>>)
\* def function_no_params()
function_no_params == Callable(n_function_no_params, "no_output", <<>>)
\* class Publish(BaseModel): title: str; type: str
Publish ==
    Callable(n_Publish, "model",
             <<Field(k_title, TStr, Undefined), Field(k_type, TStr, Undefined)>>)

\* function.__doc__, None when there is none
SimpleDoc == <<" ", " ", "Simple function does something.", " ">>
__doc__(function) ==
    IF function.name = n_simple_function THEN Str(SimpleDoc) ELSE None

\* the title pydantic derives from a field name
title_of(name) == Str(<<"Title of ">> \o name)

\* the schema of one annotation
RECURSIVE type_schema(_)
type_schema(annotation) ==
    IF annotation.origin = "list"
    THEN Dict(("items" :> type_schema(annotation.args[1])) @@ ("type" :> T_array))
    ELSE IF annotation.origin = "Union"
    THEN Dict("anyOf" :> List([i \in DOMAIN annotation.args |-> type_schema(annotation.args[i])]))
    ELSE Dict("type" :> CASE annotation.base = "int" -> T_integer
                          [] annotation.base = "float" -> T_number
                          [] annotation.base = "str" -> T_string
                          [] annotation.base = "NoneType" -> T_null)

\* the schema of one field: its type, its default and description when it
\* has them, and its title
field_schema(field) ==
    Dict([k \in DOMAIN type_schema(field.annotation).v \cup {"title"}
               \cup (IF field.default # Undefined THEN {"default"} ELSE {})
               \cup (IF "description" \in DOMAIN field THEN {"description"} ELSE {}) |->
            CASE k = "title" -> title_of(field.name)
              [] k = "default" -> field.default
              [] k = "description" -> field.description
              [] OTHER -> type_schema(field.annotation).v[k]])

required_of(fields) == SelectSeq(fields, LAMBDA f : f.default = Undefined)

\* model.model_json_schema(): "required" is present only when some field
\* is required
model_json_schema(title, fields) ==
    Dict([k \in {"properties", "title", "type"}
               \cup (IF required_of(fields) # <<>> THEN {"required"} ELSE {}) |->
            CASE k = "properties" ->
                    Items([i \in DOMAIN fields |-> Item(fields[i].name, field_schema(fields[i]))])
              [] k = "required" ->
                    List([i \in DOMAIN required_of(fields) |-> Str(required_of(fields)[i].name)])
              [] k = "title" -> Str(title)
              [] k = "type" -> T_object])

\* lines 136-148: in a dict that has a 'type' key the 'title' key is
\* deleted, the value of every other key is purged in turn; a value that
\* is not a dict (a str, a bool, a list) is left as it is
RECURSIVE _recursive_purge_titles(_)
_recursive_purge_titles(d) ==
    IF d.t = "dict"
    THEN Dict([key \in DOMAIN d.v \ (IF "type" \in DOMAIN d.v THEN {"title"} ELSE {}) |->
                 _recursive_purge_titles(d.v[key])])
    ELSE IF d.t = "items"
    THEN LET has_type == \E i \in DOMAIN d.v : d.v[i].k = k_type
             kept == SelectSeq(d.v, LAMBDA item : ~(item.k = k_title /\ has_type))
         IN Items([i \in DOMAIN kept |-> Item(kept[i].k, _recursive_purge_titles(kept[i].v))])
    ELSE d

\* lines 170-208, for a callable that is not an LLMFunction
function_schema_of(function, case_insensitive_, strict_) ==
    LET description == IF IsNone(__doc__(function)) THEN <<>> ELSE __doc__(function).v
        schema_name == IF case_insensitive_ THEN lower(function.name) ELSE function.name
        model == parameters_basemodel_from_function(function)
        json_schema == model_json_schema(function.name \o s_ParameterModel, model)
    IN Dict([k \in {"name", "description", "parameters"}
                  \cup (IF strict_ THEN {"strict"} ELSE {}) |->
               CASE k = "name" -> Str(schema_name)
                 [] k = "description" -> Str(str_strip(description))
                 [] k = "strict" -> Bool(TRUE)
                 [] k = "parameters" ->
                       IF strict_ THEN to_strict_json_schema(json_schema)
                       ELSE _recursive_purge_titles(json_schema)])

\* LLMFunction.__init__, lines 30-41: the schema given, or the schema of
\* func under the name given
llm_function_schema(function) ==
    IF "schema" \in DOMAIN function THEN function.schema
    ELSE Dict([function_schema_of(function, FALSE, FALSE).v
                  EXCEPT !["name"] = Str(function.schema_name)])

\* LLMFunction(func, schema=schema)
LLMFunctionWithSchema(func, schema_) ==
    [name |-> func.name, wrapped |-> TRUE, schema_name |-> schema_.v["name"].v,
     kind |-> func.kind, fields |-> func.fields, schema |-> schema_]

ValueError(msg) == Exc("ValueError", msg)

get_function_schema(function, case_insensitive_, strict_) ==
    IF function.wrapped
    THEN IF case_insensitive_
         THEN [raised |-> ValueError(<<"Case insensitivity is not supported for LLMFunction">>),
               ret |-> None]
         ELSE [raised |-> None, ret |-> llm_function_schema(function)]
    ELSE [raised |-> None, ret |-> function_schema_of(function, case_insensitive_, strict_)]

-----------------------------------------------------------------------------
(* insert_prefix.  The outcome is [raised, ret, schema]: the exception     *)
(* that left the call or None, the schema returned, and the target schema  *)
(* as the call left it.                                                    *)

TypeError(msg) == Exc("TypeError", msg)
KeyError(key) == Exc("KeyError", key)

\* class Empty(BaseModel): pass
Empty == Callable(n_Empty, "model", <<>>)
\* class Hints(BaseModel): size: Optional[float] = None
Hints == Callable(n_Hints, "model", <<Field(k_size, TOptional(TFloat), None)>>)

\* d[key] = value on a dict that keeps insertion order: a key that is
\* present keeps its place and takes the value, a new key goes last
dict_setitem(d, key, value) ==
    IF \E i \in DOMAIN d.v : d.v[i].k = key
    THEN Items([i \in DOMAIN d.v |-> IF d.v[i].k = key THEN Item(key, value) ELSE d.v[i]])
    ELSE Items(Append(d.v, Item(key, value)))

\* lines 309-310: for key, value in items: properties[key] = value
RECURSIVE set_all(_, _)
set_all(properties, items) ==
    IF items = <<>> THEN properties
    ELSE set_all(dict_setitem(properties, Head(items).k, Head(items).v), Tail(items))

\* lines 304-306: the prefix's own schema, titles purged, description popped
prefix_schema_of(prefix_class_) ==
    LET purged == _recursive_purge_titles(model_json_schema(prefix_class_.name, prefix_class_.fields))
    IN Dict([k \in DOMAIN purged.v \ {"description"} |-> purged.v[k]])

\* lines 307-310, when prefix_schema has its 'required' key
extended(prefix_schema, schema_) ==
    IF "parameters" \in DOMAIN schema_.v
    THEN LET required == IF "required" \in DOMAIN schema_.v["parameters"].v
                         THEN schema_.v["parameters"].v["required"].v ELSE <<>>
         IN Dict([prefix_schema.v EXCEPT
                    !["required"] = List(@.v \o required),
                    !["properties"] = set_all(@, schema_.v["parameters"].v["properties"].v)])
    ELSE prefix_schema

\* lines 311-319: the copy of schema with the merged parameters and name
renamed(parameters, schema_, prefix_class_, prefix_schema_name_, case_insensitive_) ==
    LET prefix_name == IF case_insensitive_ THEN lower(prefix_class_.name) ELSE prefix_class_.name
        keys == (DOMAIN schema_.v \cup {"parameters"})
                   \ (IF parameters.v["properties"].v = <<>> THEN {"parameters"} ELSE {})
    IN Dict([k \in keys |->
               CASE k = "name" /\ prefix_schema_name_ ->
                       Str(prefix_name \o s_and \o schema_.v["name"].v)
                 [] k = "parameters" -> parameters
                 [] OTHER -> schema_.v[k]])

\* a variant without the copy (new_schema = schema): the writes land in the
\* schema given
after_alias(schema_, new_schema_) == [raised |-> None, ret |-> new_schema_, schema |-> new_schema_]

\* line 313: new_schema = schema.copy(); lines 314-319 write into the copy,
\* so the schema given is as it was
after_copy(schema_, new_schema_) == [raised |-> None, ret |-> new_schema_, schema |-> schema_]

\* lines 289-320
insert_prefix(prefix_class_, schema_, prefix_schema_name_, case_insensitive_) ==
    IF prefix_class_.kind # "model"
    THEN [raised |-> TypeError(<<"The given class reference is not a subclass of pydantic BaseModel">>),
          ret |-> None, schema |-> schema_]
    ELSE IF /\ "parameters" \in DOMAIN schema_.v
            /\ "required" \notin DOMAIN prefix_schema_of(prefix_class_).v
    THEN [raised |-> KeyError(<<"required">>), ret |-> None, schema |-> schema_]
    ELSE after_copy(schema_, renamed(extended(prefix_schema_of(prefix_class_), schema_), schema_,
                                     prefix_class_, prefix_schema_name_, case_insensitive_))

-----------------------------------------------------------------------------
(* Deriving a schema and merging prefixes into it *)

MaxMerges == 2

\* LLMFunction(original_function, schema={'name': ..., 'description': ''})
function_bare ==
    LLMFunctionWithSchema(original_function,
                          Dict(("name" :> Str(n_original_function)) @@ ("description" :> Str(<<>>))))

SchemaPool ==
    {simple_function, simple_function_no_docstring, function_no_params, failing_method,
     User, user, Publish, function_decorated, function_bare}

\* the prefix types passed: typed records, and a function, which is not one
PrefixPool == {Reflection, User, Publish, Hints, Empty, failing_method}

InitSchema ==
    /\ pc = "derive"
    /\ functions_or_models \in {<<f>> : f \in SchemaPool}
    /\ case_insensitive \in BOOLEAN
    /\ strict \in BOOLEAN
    /\ prefix_class = None /\ fix_json_args = TRUE
    /\ schema = None /\ strict_done = FALSE /\ derived = NoSchema
    /\ prefix_schema_name = TRUE /\ new_schema = NoMerge /\ merges = 0
    /\ DispatchIdle
    /\ BatchIdle

GetFunctionSchema ==
    /\ pc = "derive"
    /\ derived' = get_function_schema(functions_or_models[1], case_insensitive, strict)
    /\ schema' = derived'.ret
    /\ pc' = IF IsNone(derived'.raised) THEN "merge" ELSE "failed"
    /\ UNCHANGED <<tool_call, intended, ret, message, optionVars, batchVars,
                   strict_done, strict, prefix_schema_name, new_schema, merges>>

InsertPrefix ==
    /\ pc = "merge"
    /\ merges < MaxMerges
    /\ \E P \in PrefixPool, with_name \in BOOLEAN :
          /\ prefix_class' = P
          /\ prefix_schema_name' = with_name
          /\ new_schema' = insert_prefix(P, schema, with_name, case_insensitive)
    /\ schema' = new_schema'.schema
    /\ merges' = merges + 1
    /\ UNCHANGED <<pc, tool_call, intended, ret, message, functions_or_models, fix_json_args,
                   case_insensitive, batchVars, strict_done, strict, derived>>

NextSchema == GetFunctionSchema \/ InsertPrefix

SpecSchema == InitSchema /\ [][NextSchema]_vars

\* the parameter schema as model_json_schema() emitted it
Emitted ==
    model_json_schema(functions_or_models[1].name \o s_ParameterModel,
                      parameters_basemodel_from_function(functions_or_models[1]))

\* a schema tree with the title removed from every node that has a type,
\* through every value, mapping and list, and nothing else removed
RECURSIVE WithoutTitles(_)
WithoutTitles(n) ==
    CASE n.t = "dict" ->
            Dict([k \in DOMAIN n.v \ (IF "type" \in DOMAIN n.v THEN {"title"} ELSE {}) |->
                    WithoutTitles(n.v[k])])
      [] n.t = "items" -> Items([i \in DOMAIN n.v |-> Item(n.v[i].k, WithoutTitles(n.v[i].v))])
      [] n.t = "list" -> List([i \in DOMAIN n.v |-> WithoutTitles(n.v[i])])
      [] OTHER -> n

Lenient == pc = "merge" /\ ~strict /\ ~functions_or_models[1].wrapped

\* C11: the parameters of a schema derived with strict=false are the schema
\* model_json_schema() emitted with the title removed from every node that
\* has a type and nothing else changed: every property entry, whatever its
\* name, is still there.
C11_PurgeRemovesOnlyTitles ==
    Lenient => schema.v["parameters"] = WithoutTitles(Emitted)

\* insert_prefix has been called with a typed record as the prefix type
Merged == merges > 0 /\ prefix_class.kind = "model"

HasKey(properties, k) == \E i \in DOMAIN properties : properties[i].k = k
ValueAt(properties, k) == properties[CHOOSE i \in DOMAIN properties : properties[i].k = k].v

\* the properties of the prefix type and of the target of the last call
PrefixProperties == prefix_schema_of(prefix_class).v["properties"].v
TargetProperties ==
    IF "parameters" \in DOMAIN schema.v THEN schema.v["parameters"].v["properties"].v ELSE <<>>

\* the prefix's properties, then the target's; a key of both has the
\* target's definition
PropertyUnion ==
    [i \in DOMAIN PrefixProperties |->
        IF HasKey(TargetProperties, PrefixProperties[i].k)
        THEN Item(PrefixProperties[i].k, ValueAt(TargetProperties, PrefixProperties[i].k))
        ELSE PrefixProperties[i]]
    \o SelectSeq(TargetProperties, LAMBDA item : ~HasKey(PrefixProperties, item.k))

\* C18: insert_prefix with a typed record as the prefix type does not raise;
\* the schema it returns has no parameters key when the merged properties
\* are empty and has a parameters key holding the merged properties
\* otherwise.
C18_ParametersKey ==
    Merged =>
       /\ IsNone(new_schema.raised)
       /\ IF PropertyUnion = <<>>
          THEN "parameters" \notin DOMAIN new_schema.ret.v
          ELSE /\ "parameters" \in DOMAIN new_schema.ret.v
               /\ new_schema.ret.v["parameters"].v["properties"] = Items(PropertyUnion)

\* the required fields of the prefix type and of the target of the last call
PrefixRequired ==
    [i \in DOMAIN required_of(prefix_class.fields) |-> Str(required_of(prefix_class.fields)[i].name)]
TargetRequired ==
    IF "parameters" \in DOMAIN schema.v /\ "required" \in DOMAIN schema.v["parameters"].v
    THEN schema.v["parameters"].v["required"].v ELSE <<>>

\* the required list of the parameters returned; a schema without the key
\* requires nothing
ReturnedRequired ==
    IF "required" \in DOMAIN new_schema.ret.v["parameters"].v
    THEN new_schema.ret.v["parameters"].v["required"].v ELSE <<>>

\* C12: insert_prefix(P, schema) yields a schema whose parameters have as
\* required list P's required fields followed by the target's, and as
\* properties P's properties followed by the target's, a key of both having
\* the target's definition.
C12_RequiredThenProperties ==
    (Merged /\ PropertyUnion # <<>>) =>
       /\ IsNone(new_schema.raised)
       /\ ReturnedRequired = PrefixRequired \o TargetRequired
       /\ new_schema.ret.v["parameters"].v["properties"] = Items(PropertyUnion)

-----------------------------------------------------------------------------
(* to_message on a ToolResult built from its constructor: every field of   *)
(* the dataclass is set independently of the others.                       *)

\* the outputs a callable can hand back: nothing, falsy and non-empty
\* plain values, and instances of typed records
Outputs ==
    {None, Num(0), Num(2), Bool(FALSE), Str(<<>>), Str(<<"executed">>), List(<<>>),
     ModelInstance(n_User, Items(<<Item(k_names, JohnDoe)>>)),
     ModelInstance(n_Reflection, Items(<<>>))}

Errors ==
    {None, Exc("Exception", <<"Some exception">>),
     NoMatchingTool(<<"Function ">> \o n_User \o <<" not found">>)}

ToolResults ==
    {ToolResult("A", name, output, None, error, None, <<>>, None, NoTool) :
        name \in {n_User, n_failing_method}, output \in Outputs, error \in Errors}

InitMessage ==
    /\ pc = "done"
    /\ \E r \in ToolResults : ret = [NoRet EXCEPT !.result = r]
    /\ tool_call = None /\ intended = None /\ message = None
    /\ functions_or_models = <<>> /\ prefix_class = None
    /\ fix_json_args = TRUE /\ case_insensitive = FALSE
    /\ BatchIdle
    /\ SchemaIdle

NextMessage == ToMessage

SpecMessage == InitMessage /\ [][NextMessage]_vars

-----------------------------------------------------------------------------
(* Merged schemas and the dispatch of the calls named after them           *)

\* the schema of the i-th registered callable, derived in the case mode of
\* the call, and its merge with the prefix type
SchemaOf(i) == get_function_schema(functions_or_models[i], case_insensitive, FALSE)
MergedOf(i) == insert_prefix(prefix_class, SchemaOf(i).ret, TRUE, case_insensitive)

\* the call is named with the merged name of the i-th registered callable
NamedAsMerged(i) ==
    /\ ~IsNone(prefix_class)
    /\ IsNone(SchemaOf(i).raised)
    /\ IsNone(MergedOf(i).raised)
    /\ tool_call.name = MergedOf(i).ret.v["name"].v

\* C15: with a prefix type configured, a call name that matches the expected
\* prefix loses exactly the leading "{prefixName}_and_"; and a call named
\* with the merged name insert_prefix gives for a registered callable is
\* reduced to that callable's schema name and resolves to it (to the first
\* callable of that name).
C15_MergedNameRoundTrip ==
    (Resolving /\ ~IsNone(prefix_class)) =>
        /\ startswith(tool_call.name, PrefixName) =>
              PrefixName \o s_and \o ret.result.name = tool_call.name
        /\ \A i \in DOMAIN functions_or_models :
              NamedAsMerged(i) =>
                 /\ ret.result.name = SchemaOf(i).ret.v["name"].v
                 /\ ret.result.tool \in Matching(ret.result.name)
                 /\ ret.result.tool <= i

\* C16: the soft_errors of the ToolResult returned are the soft errors the
\* steps recorded while the call was processed (the parse error of a
\* repair, the prefix validation failure, the prefix-name note, the notes
\* of the list fields repaired), all of them and in the order recorded,
\* whether the call ends with an output or with an error.
C16_SoftErrorsComplete ==
    (Done /\ IsNone(ret.raised)) => ret.result.soft_errors = ret.recorded

\* a soft error that is an exception of the kind, not a note
IsError(e, kind) == e.t = "exc" /\ e.kind = kind

\* the arguments the prefix type takes, and whether it rejects them
PrefixArgs == [k \in DOMAIN Sent \cap PrefixKeys |-> Sent[k]]
PrefixInvalid == ~model_validate(prefix_class.fields, PrefixArgs).ok
NameMismatch == ~startswith(tool_call.name, PrefixName)

\* C17: with a prefix type configured, a prefix validation failure is in
\* the soft errors and leaves the prefix instance absent; a call name that
\* does not start with the expected prefix name gets a soft NoMatchingTool
\* note and stays as it is; in both cases the callable is resolved from the
\* name and given the remaining arguments: the arguments of the ToolResult
\* have the keys the prefix type does not take, the first callable
\* answering to the name is the tool, and it is invoked whenever these
\* arguments are valid for it.
C17_PrefixProblemsAreSoft ==
    (Resolving /\ ~IsNone(prefix_class) /\ (PrefixInvalid \/ NameMismatch)) =>
        /\ PrefixInvalid =>
              /\ \E i \in DOMAIN ret.result.soft_errors :
                    IsError(ret.result.soft_errors[i], "ValidationError")
              /\ IsNone(ret.result.prefix)
        /\ NameMismatch =>
              /\ \E i \in DOMAIN ret.result.soft_errors :
                    /\ IsError(ret.result.soft_errors[i], "NoMatchingTool")
                    /\ Contains(ret.result.soft_errors[i].msg, PrefixName)
              /\ ret.result.name = tool_call.name
        /\ DOMAIN ret.result.arguments.v = DOMAIN ForCallable
        /\ Matching(ret.result.name) # {} =>
              /\ ret.result.tool = Min(Matching(ret.result.name))
              /\ model_validate(functions_or_models[ret.result.tool].fields,
                                ret.result.arguments.v).ok
                    => ret.invoked = <<ret.result.tool>>

\* the prefix was rejected and the call name had no prefix, and the callable
\* of that name ran on the remaining arguments
C17_Witness ==
    /\ Resolving /\ ~IsNone(prefix_class)
    /\ PrefixInvalid /\ NameMismatch
    /\ ret.invoked # <<>>
    /\ ~IsNone(ret.result.output)
    /\ Len(ret.result.soft_errors) >= 2

\* a value is valid for a property definition
RECURSIVE Conforms(_, _)
Conforms(value, node) ==
    IF "anyOf" \in DOMAIN node.v
    THEN \E j \in DOMAIN node.v["anyOf"].v : Conforms(value, node.v["anyOf"].v[j])
    ELSE CASE node.v["type"] \in {T_integer, T_number} -> value.t = "num"
           [] node.v["type"] = T_string -> value.t = "str"
           [] node.v["type"] = T_null -> value.t = "None"
           [] node.v["type"] = T_array ->
                 /\ value.t = "list"
                 /\ \A j \in DOMAIN value.v : Conforms(value.v[j], node.v["items"])
           [] OTHER -> value.t = "dict"

\* the arguments text is an object's, and it decodes to what was meant
Decodes ==
    /\ intended.value.t = "items"
    /\ intended.spelling = "clean" \/ (TrailingComma /\ fix_json_args)

\* the call supplies a valid value for every required property of the merged
\* schema of the i-th registered callable
Supplies(i) ==
    LET parameters == MergedOf(i).ret.v["parameters"].v IN
    \A j \in DOMAIN parameters["required"].v :
        /\ parameters["required"].v[j].v \in DOMAIN Sent
        /\ Conforms(Sent[parameters["required"].v[j].v],
                    ValueAt(parameters["properties"].v, parameters["required"].v[j].v))

\* the i-th registered callable is the first to answer to its schema name
FirstOfItsName(i) == i = Min(Matching(SchemaOf(i).ret.v["name"].v) \cup {i})

\* C19: a call named with the merged name of a registered callable (the
\* first of that name), whose
\* arguments supply a valid value for every required property of the merged
\* schema, is dispatched with the prefix instance constructed and the
\* callable invoked, and no validation error is recorded, soft or hard,
\* also when the prefix type and the callable declare a field of the same
\* name.
C19_MergeAndDispatchAgree ==
    \A i \in DOMAIN functions_or_models :
        (Done /\ Decodes /\ NamedAsMerged(i) /\ FirstOfItsName(i) /\ Supplies(i)) =>
            /\ IsNone(ret.raised)
            /\ ~IsNone(ret.result.prefix)
            /\ ret.result.tool = i
            /\ ret.invoked = <<ret.result.tool>>
            /\ KindOf(ret.result.error) # "ValidationError"
            /\ \A j \in DOMAIN ret.result.soft_errors :
                  ~IsError(ret.result.soft_errors[j], "ValidationError")

====
